---- MODULE Spec2Model ----
(***************************************************************************)
(* A model of servecmd's execution engine (servecmd/cmd_session.py):       *)
(* process_web_cmd looks a command up, builds a CmdSession and runs it.    *)
(* run opens the job context (job id, scratch directory), resolves the     *)
(* declared parameters, builds the command line, spawns the subprocess,    *)
(* assembles the result and removes the scratch directory.                 *)
(*                                                                         *)
(* Text is a sequence of atoms.  An atom is a TLA+ string: either one      *)
(* character that matters to the template engine or to shlex ("$", "'",    *)
(* " ", ";"), or a word of characters that shlex leaves alone (letters,    *)
(* digits, "_", "/", ".", "-"), such as "echo" or "/w/u1".                 *)
(***************************************************************************)
EXTENDS Integers, Sequences, FiniteSets, TLC

\* ------------------------------------------------------------------ bounds
\* Number of CmdSession objects (one per process_web_cmd invocation).
MaxSessions == 2
\* Number of run() invocations on one CmdSession object (SpecReuse only).
MaxRuns == 2

Sessions == 1..MaxSessions

\* ------------------------------------------------------------ Python values
\* None, str and bytes values; text and bytes are sequences of atoms.
None == [t |-> "none"]
Str(s) == [t |-> "str", v |-> s]
Bytes(b) == [t |-> "bytes", v |-> b]

\* Python truthiness of a value: None, '' and b'' are falsy.
Truthy(x) == x.t # "none" /\ x.v # <<>>

\* str(x) as text: str(None) is 'None', str(b'..') is the bytes' repr.
PyStr(x) ==
  CASE x.t = "none" -> <<"None">>
    [] x.t = "str" -> x.v
    [] OTHER -> <<"b", "'">> \o x.v \o <<"'">>

\* dict.get(key): the value, or None when the key is absent.
DictGet(d, k) == IF k \in DOMAIN d THEN d[k] ELSE None

\* dict.get(key, []) for a dict of lists.
DictGetSeq(d, k) == IF k \in DOMAIN d THEN d[k] ELSE <<>>

\* The empty dict.
EmptyDict == [k \in {} |-> None]

\* dict[key] = value.
DictSet(d, k, x) == [n \in DOMAIN d \cup {k} |-> IF n = k THEN x ELSE d[n]]

\* dict.update(other).
DictUpdate(d, e) ==
  [n \in DOMAIN d \cup DOMAIN e |-> IF n \in DOMAIN e THEN e[n] ELSE d[n]]

\* ------------------------------------------------------------- the registry
\* Parts of a command item as string.Template's pattern matches them:
\* literal text, $name, ${name}, the escape $$ and an invalid lone $.
Lit(s) == [k |-> "lit", s |-> s]
Named(n) == [k |-> "named", n |-> n]
Braced(n) == [k |-> "braced", n |-> n]
Escaped == [k |-> "escaped"]
Invalid == [k |-> "invalid"]

\* A declared parameter (an entry of cmd_config['params'], in dict order);
\* filename "" stands for an absent filename.
Param(n, req, ty, fn) == [name |-> n, required |-> req, type |-> ty, filename |-> fn]

\* An entry of cmd_config['return']: the bare string 'stdout' or 'stderr',
\* or a dict with name, type and filename.
Bare(x) == [shape |-> "str", item |-> x]
Structured(n, ty, fn) == [shape |-> "dict", name |-> n, type |-> ty, filename |-> fn]

\* The segments of a glob pattern, separated by "/": ".." and "*<suffix>"
\* ("*" when the suffix is empty).
Up == [k |-> "up"]
Star(sfx) == [k |-> "star", suffix |-> sfx]

\* A file_list entry of cmd_config['return']; an empty pattern stands for
\* an absent or empty 'glob'.
FileList(n, pattern) ==
  [shape |-> "dict", name |-> n, type |-> "file_list", filename |-> "", glob |-> pattern]

\* conf.CONFIG['default_workdir'], used when a command has no cwd.
default_workdir == <<"/", "tmp">>

\* The command registry (cmd_manager's configs), read-only at run time.
\*   echo: the spec's end-to-end example, one required plain parameter.
\*   conv: a file parameter declared before a required plain one that the
\*         command does not reference, a command item that references the
\*         file parameter and an undeclared name, and a structured file
\*         return.
Registry ==
  [echo |->
     [name |-> "echo", cwd |-> <<"/", "tmp", "/">>,
      params |-> << Param("greeting", TRUE, "plain", "") >>,
      command |-> << <<Lit(<<"echo">>)>>, <<Named("greeting")>> >>,
      return |-> << Bare("stdout") >>],
   conv |->
     [name |-> "conv", cwd |-> <<>>,
      params |-> << Param("f", FALSE, "file", "in.txt"),
                    Param("r", TRUE, "plain", "") >>,
      command |-> << <<Lit(<<"conv">>)>>, <<Braced("f"), Lit(<<" ">>), Named("x")>> >>,
      return |-> << Structured("out", "file", "out.txt"), Bare("stderr") >>]]

CmdNames == DOMAIN Registry

\* cmd_manager.get_cmd_config(cmd): the command's config, or None.
get_cmd_config(cmd) == IF cmd \in CmdNames THEN Registry[cmd] ELSE None

\* ------------------------------------------------------------- the requests
\* What the transport adapter hands to process_web_cmd: the command name,
\* the JSON body and the uploaded files.
Request(c, j, f) == [cmd |-> c, json_data |-> j, files |-> f]

Requests ==
  { Request("nope", EmptyDict, <<>>),
    Request("echo", [greeting |-> Str(<<"hi">>)], <<>>),
    Request("echo", EmptyDict, <<>>),
    Request("echo", [greeting |-> Str(<<"'">>)], <<>>),
    Request("conv", [r |-> Str(<<"x">>), f |-> Str(<<"hello">>),
                     x |-> Str(<<"a", " ", "b">>)], <<>>),
    Request("conv", [f |-> Str(<<"hello">>)], <<>>),
    Request("conv", [r |-> Str(<<"y">>)],
            << [filename |-> "in.txt", file |-> Bytes(<<"data">>)] >>) }

\* ------------------------------------------------------------ util.Template
\* Template.get_identifiers: the names of the $name and ${name} parts, in
\* order of first occurrence; escaped and invalid parts are skipped.
RECURSIVE get_identifiers_from(_, _, _)
get_identifiers_from(item, i, ids) ==
  IF i > Len(item) THEN ids
  ELSE LET p == item[i] IN
       IF p.k \in {"named", "braced"} /\ ~(\E j \in 1..Len(ids) : ids[j] = p.n)
       THEN get_identifiers_from(item, i + 1, Append(ids, p.n))
       ELSE get_identifiers_from(item, i + 1, ids)

get_identifiers(item) == get_identifiers_from(item, 1, <<>>)

\* The text of one part as written in the template.
PartText(p) ==
  CASE p.k = "lit" -> p.s
    [] p.k = "named" -> <<"$", p.n>>
    [] p.k = "braced" -> <<"$", "{", p.n, "}">>
    [] p.k = "escaped" -> <<"$", "$">>
    [] OTHER -> <<"$">>

\* str(item): the template text itself.
RECURSIVE ItemText(_)
ItemText(item) ==
  IF item = <<>> THEN <<>> ELSE PartText(Head(item)) \o ItemText(Tail(item))

\* A substitution that renders a name missing from the mapping as nothing.
RECURSIVE substitute_blank(_, _)
substitute_blank(item, mapping) ==
  IF item = <<>> THEN <<>>
  ELSE LET p == Head(item)
           out == CASE p.k \in {"named", "braced"} ->
                         (IF p.n \in DOMAIN mapping THEN PyStr(mapping[p.n]) ELSE <<>>)
                    [] p.k = "escaped" -> <<"$">>
                    [] OTHER -> PartText(p)
       IN out \o substitute_blank(Tail(item), mapping)

\* Template.safe_substitute(mapping): a name in the mapping is replaced by
\* str(value), an escape by "$", anything else stays as written.
RECURSIVE safe_substitute(_, _)
safe_substitute(item, mapping) ==
  IF item = <<>> THEN <<>>
  ELSE LET p == Head(item)
           out == CASE p.k \in {"named", "braced"} /\ p.n \in DOMAIN mapping
                         -> PyStr(mapping[p.n])
                    [] p.k = "escaped" -> <<"$">>
                    [] OTHER -> PartText(p)
       IN out \o safe_substitute(Tail(item), mapping)

\* -------------------------------------------------------------------- shlex
Quotes == {"'", "\""}
Whitespace == {" "}
\* Atoms outside shlex's safe set [A-Za-z0-9_@%+=:,./-].
UnsafeAtoms == Quotes \cup Whitespace \cup {"$", ";", "|", "&", "{", "}"}

\* shlex.split(s) in POSIX mode over text without backslashes: words are
\* split at unquoted whitespace, a quote runs to the next same quote, and an
\* unclosed quote raises ValueError (ok = FALSE).
RECURSIVE shlex_lex(_, _, _, _, _, _)
shlex_lex(s, i, tokens, cur, has, q) ==
  IF i > Len(s)
  THEN IF q # "" THEN [ok |-> FALSE, tokens |-> <<>>]
       ELSE [ok |-> TRUE, tokens |-> IF has THEN Append(tokens, cur) ELSE tokens]
  ELSE LET c == s[i] IN
       IF q # ""
       THEN IF c = q THEN shlex_lex(s, i + 1, tokens, cur, TRUE, "")
            ELSE shlex_lex(s, i + 1, tokens, Append(cur, c), TRUE, q)
       ELSE IF c \in Whitespace
            THEN IF has THEN shlex_lex(s, i + 1, Append(tokens, cur), <<>>, FALSE, "")
                 ELSE shlex_lex(s, i + 1, tokens, cur, FALSE, "")
            ELSE IF c \in Quotes THEN shlex_lex(s, i + 1, tokens, cur, TRUE, c)
            ELSE shlex_lex(s, i + 1, tokens, Append(cur, c), TRUE, "")

shlex_split(s) == shlex_lex(s, 1, <<>>, <<>>, FALSE, "")

\* token.replace("'", "'\"'\"'").
RECURSIVE ReplaceQuote(_)
ReplaceQuote(t) ==
  IF t = <<>> THEN <<>>
  ELSE (IF Head(t) = "'" THEN <<"'", "\"", "'", "\"", "'">> ELSE <<Head(t)>>)
       \o ReplaceQuote(Tail(t))

\* A quote that leaves every token as it is.
shlex_quote_none(t) == t

\* shlex.quote(token).
shlex_quote(t) ==
  IF t = <<>> THEN <<"'", "'">>
  ELSE IF \A i \in 1..Len(t) : t[i] \notin UnsafeAtoms THEN t
  ELSE <<"'">> \o ReplaceQuote(t) \o <<"'">>

\* shlex.join(tokens): the quoted tokens joined by single spaces.
RECURSIVE shlex_join(_)
shlex_join(tokens) ==
  IF tokens = <<>> THEN <<>>
  ELSE IF Len(tokens) = 1 THEN shlex_quote(tokens[1])
  ELSE shlex_quote(Head(tokens)) \o <<" ">> \o shlex_join(Tail(tokens))

\* ---------------------------------------------------------------- the shell
\* The shell's control operators and the characters that start an expansion.
ShellOperators == {";", "|", "&"}
ShellExpansions == {"$"}

\* How the shell that create_subprocess_shell starts reads a command line
\* (without backslashes): the words, the number of control operators
\* outside quotes (each starts a further command) and whether an expansion
\* character is outside single quotes.  A quote left open is an error.
RECURSIVE sh_lex(_, _, _, _)
sh_lex(s, i, q, st) ==
  IF i > Len(s)
  THEN [st EXCEPT !.ok = (q = ""),
                  !.words = IF st.has THEN Append(@, st.cur) ELSE @]
  ELSE LET c == s[i] IN
       IF q = "'"
       THEN IF c = "'" THEN sh_lex(s, i + 1, "", st)
            ELSE sh_lex(s, i + 1, q, [st EXCEPT !.cur = Append(@, c)])
       ELSE IF q = "\""
       THEN IF c = "\"" THEN sh_lex(s, i + 1, "", st)
            ELSE sh_lex(s, i + 1, q,
                        [st EXCEPT !.cur = Append(@, c),
                                   !.expands = @ \/ c \in ShellExpansions])
       ELSE IF c \in Whitespace \cup ShellOperators
       THEN sh_lex(s, i + 1, "",
                   [st EXCEPT !.words = IF st.has THEN Append(@, st.cur) ELSE @,
                              !.cur = <<>>, !.has = FALSE,
                              !.operators = IF c \in ShellOperators THEN @ + 1 ELSE @])
       ELSE IF c \in Quotes
       THEN sh_lex(s, i + 1, c, [st EXCEPT !.has = TRUE])
       ELSE sh_lex(s, i + 1, "",
                   [st EXCEPT !.cur = Append(@, c), !.has = TRUE,
                              !.expands = @ \/ c \in ShellExpansions])

sh_parse(s) ==
  sh_lex(s, 1, "", [ok |-> TRUE, words |-> <<>>, cur |-> <<>>, has |-> FALSE,
                    operators |-> 0, expands |-> FALSE])

\* --------------------------------------------------------------- CmdSession
\* self.job_id outside a job context.
NoJob == "None"

\* An entry of a run's trace: a step of run (name: the job id, where one is
\* used), or an access it makes (name: the parameter; path and file: the
\* directory and the file in it).
Ev(op, name, path) == [op |-> op, name |-> name, path |-> path, file |-> ""]
FileEv(op, name, path, file) == [op |-> op, name |-> name, path |-> path, file |-> file]

\* No pending exception.
NoExc == [type |-> "", arg |-> ""]
Exc(ty, a) == [type |-> ty, arg |-> a]

\* str.rstrip("/") on a path given as atoms.
RECURSIVE rstrip_slash(_)
rstrip_slash(t) ==
  IF t # <<>> /\ t[Len(t)] = "/" THEN rstrip_slash(SubSeq(t, 1, Len(t) - 1)) ELSE t

\* The atoms of a text run together into one string.
RECURSIVE Join(_)
Join(t) == IF t = <<>> THEN "" ELSE Head(t) \o Join(Tail(t))

\* A job path that leaves the job id out: every run of a command in the
\* same directory.
get_job_path_shared(cfg, jid) ==
  Join(rstrip_slash(IF cfg.cwd # <<>> THEN cfg.cwd ELSE default_workdir)) \o "/job"

\* CmdSession.get_job_path: f'{cwd.rstrip("/")}/{self.job_id}', as atoms
\* and as one string.
job_path_atoms(cfg, jid) ==
  LET cwd == IF cfg.cwd # <<>> THEN cfg.cwd ELSE default_workdir
  IN rstrip_slash(cwd) \o <<"/", jid>>

get_job_path(cfg, jid) == Join(job_path_atoms(cfg, jid))

\* os.getcwd() of the server process.
os_getcwd == <<"/", "srv">>

\* os.path.abspath(path): a relative path is joined to os.getcwd().
abspath(t) == IF t # <<>> /\ Head(t) = "/" THEN t ELSE os_getcwd \o <<"/">> \o t

\* params.get(param_name): the declared parameter, or None.
params_get(cfg, param_name) ==
  IF \E i \in 1..Len(cfg.params) : cfg.params[i].name = param_name
  THEN cfg.params[CHOOSE i \in 1..Len(cfg.params) : cfg.params[i].name = param_name]
  ELSE None

\* One iteration of get_params' loop for param_name.  st carries ret, the
\* cache, the file system, the pending exception and the accesses made
\* (reads of kwargs, file writes).  io_ok is whether the file system lets
\* open(.., 'wb') succeed.
get_params_one(st, cfg, jid, param_name, kw, io_ok) ==
  IF param_name \in DOMAIN st.cache
  THEN [st EXCEPT !.ret = DictSet(@, param_name, st.cache[param_name]),
                  !.events = Append(@, Ev("cache_hit", param_name, ""))]
  ELSE
    LET param_config == params_get(cfg, param_name)
        read == Append(st.events, Ev("kwargs", param_name, ""))
    IN
    IF param_config = None
    THEN IF param_name \in DOMAIN kw
         THEN [st EXCEPT !.ret = DictSet(@, param_name, kw[param_name]),
                         !.cache = DictSet(@, param_name, kw[param_name]),
                         !.events = read]
         ELSE [st EXCEPT !.events = read]
    ELSE
      LET value == DictGet(kw, param_name) IN
      IF param_config.required /\ value = None
      THEN [st EXCEPT !.exc = Exc("ValueError", param_name), !.events = read]
      ELSE IF param_config.type = "file"
      THEN
        LET filename == IF param_config.filename # "" THEN param_config.filename
                        ELSE param_name
            path == get_job_path(cfg, jid)
            data == IF Truthy(value) THEN value.v ELSE <<>>
        IN
        IF io_ok /\ path \in DOMAIN st.fs
        THEN [st EXCEPT !.fs = [@ EXCEPT ![path] = DictSet(@, filename, data)],
                        !.ret = DictSet(@, param_name, Str(<<filename>>)),
                        !.cache = DictSet(@, param_name, Str(<<filename>>)),
                        !.events = Append(read, FileEv("open_wb", param_name, path,
                                                       filename))]
        ELSE [st EXCEPT !.exc = Exc("OSError", filename), !.events = read]
      ELSE [st EXCEPT !.ret = DictSet(@, param_name, value),
                      !.cache = DictSet(@, param_name, value),
                      !.events = read]

\* CmdSession.get_params(*param_name_list, **kwargs): the loop over the
\* names, stopped by the first exception.
RECURSIVE get_params_loop(_, _, _, _, _, _)
get_params_loop(st, cfg, jid, names, kw, io_ok) ==
  IF names = <<>> \/ st.exc # NoExc THEN st
  ELSE get_params_loop(get_params_one(st, cfg, jid, Head(names), kw, io_ok),
                       cfg, jid, Tail(names), kw, io_ok)

\* get_params that never consults self._params_cache.
get_params_uncached(cache, files, cfg, jid, names, kw, io_ok) ==
  LET r == get_params_loop([ret |-> EmptyDict, cache |-> EmptyDict, fs |-> files,
                            exc |-> NoExc, events |-> <<>>],
                           cfg, jid, names, kw, io_ok)
  IN [r EXCEPT !.cache = DictUpdate(cache, r.cache)]

get_params(cache, files, cfg, jid, names, kw, io_ok) ==
  get_params_loop([ret |-> EmptyDict, cache |-> cache, fs |-> files,
                   exc |-> NoExc, events |-> <<>>],
                  cfg, jid, names, kw, io_ok)

\* CmdSession.process_input_item: an item with identifiers is substituted
\* with cmd_env overlaid by the resolved parameters, any other item is
\* returned as written.  st.text is the result.
process_input_item(st, cfg, jid, item, cmd_env, kw, io_ok) ==
  LET param_name_list == get_identifiers(item) IN
  IF param_name_list # <<>>
  THEN LET r == get_params(st.cache, st.fs, cfg, jid, param_name_list, kw, io_ok)
       IN [st EXCEPT !.cache = r.cache, !.fs = r.fs, !.exc = r.exc,
                     !.events = st.events \o r.events,
                     !.text = IF r.exc = NoExc
                              THEN safe_substitute(item, DictUpdate(cmd_env, r.ret))
                              ELSE <<>>]
  ELSE [st EXCEPT !.text = ItemText(item)]

\* The first loop of prepare_cmd: args_list, item by item.
RECURSIVE prepare_args(_, _, _, _, _, _, _)
prepare_args(st, cfg, jid, items, cmd_env, kw, io_ok) ==
  IF items = <<>> \/ st.exc # NoExc THEN st
  ELSE LET r == process_input_item(st, cfg, jid, Head(items), cmd_env, kw, io_ok)
       IN prepare_args([r EXCEPT !.args_list = Append(st.args_list, r.text)],
                       cfg, jid, Tail(items), cmd_env, kw, io_ok)

\* The second loop of prepare_cmd: shlex.split of every rendered item.
RECURSIVE split_all(_)
split_all(args_list) ==
  IF args_list = <<>> THEN [ok |-> TRUE, tokens |-> <<>>]
  ELSE LET h == shlex_split(Head(args_list))
           t == split_all(Tail(args_list))
       IN IF h.ok /\ t.ok THEN [ok |-> TRUE, tokens |-> h.tokens \o t.tokens]
          ELSE [ok |-> FALSE, tokens |-> <<>>]

\* CmdSession.prepare_cmd: the command line, or the exception raised.
prepare_cmd(cache, files, cfg, jid, kw, io_ok) ==
  LET cmd_env == [cwd |-> Str(<<get_job_path(cfg, jid)>>),
                  cwd_abs |-> Str(<<Join(abspath(job_path_atoms(cfg, jid)))>>)]
      a == prepare_args([cache |-> cache, fs |-> files, exc |-> NoExc,
                         events |-> <<>>, text |-> <<>>, args_list |-> <<>>],
                        cfg, jid, cfg.command, cmd_env, kw, io_ok)
      sp == split_all(a.args_list)
  IN IF a.exc # NoExc THEN [a EXCEPT !.text = <<>>]
     ELSE IF ~sp.ok THEN [a EXCEPT !.exc = Exc("ValueError", "No closing quotation"),
                                    !.text = <<>>]
     ELSE [a EXCEPT !.text = shlex_join(sp.tokens)]

\* Atoms that stand for bytes that are not valid UTF-8.
InvalidUtf8 == {"xFF"}

\* bytes.decode('utf-8'): the text, or UnicodeDecodeError (ok = FALSE).
decode_utf8(data) ==
  [ok |-> \A i \in 1..Len(data) : data[i] \notin InvalidUtf8, text |-> data]

\* to_base64 over the bytes read as text, undecodable bytes dropped.
to_base64_text(data) ==
  LET Valid(b) == b \notin InvalidUtf8 IN Str(<<"base64">> \o SelectSeq(data, Valid))

\* to_base64(data): the base64 text of the bytes.
to_base64(data) == Str(<<"base64">> \o data)

\* The file names that end in ".txt" and in ".log".
TxtNames == {"a.txt", "b.txt", "in.txt", "out.txt", "input.txt"}
LogNames == {"c.log"}

\* fnmatch of an entry name against "*<suffix>" (no name here starts with a
\* dot).
fnmatch(name, seg) ==
  CASE seg.suffix = "" -> TRUE
    [] seg.suffix = ".txt" -> name \in TxtNames
    [] seg.suffix = ".log" -> name \in LogNames
    [] OTHER -> FALSE

\* The names a directory under a working directory can have: job ids, and
\* a directory that is not of this server's making.
DirNames == {"other"} \cup { "u" \o ToString(i) : i \in 1..(MaxSessions * MaxRuns) }

\* The directories of the file system directly under the directory cur.
subdirs(files, cur) == { d \in DirNames : Join(cur \o <<"/", d>>) \in DOMAIN files }

\* The parent of a directory given as atoms.
parent(cur) == IF Len(cur) >= 2 THEN SubSeq(cur, 1, Len(cur) - 2) ELSE cur

\* The orders in which the operating system may list the entries `names`.
Orderings(names) ==
  { f \in [1..Cardinality(names) -> names] :
      \A i, j \in 1..Cardinality(names) : i # j => f[i] # f[j] }

\* glob.glob(pattern, root_dir=..) from the directory cur, rel being the
\* part of the pattern already walked: the matches in listing order, each
\* with its path relative to root_dir, the directory that holds it and
\* whether it is itself a directory.
RECURSIVE glob_walk(_, _, _, _, _)
RECURSIVE glob_dirs(_, _, _, _, _, _)
glob_walk(files, cur, rel, pattern, order) ==
  LET seg == Head(pattern)
      rest == Tail(pattern)
      here == Join(cur)
      names == IF here \in DOMAIN files THEN DOMAIN files[here] ELSE {}
      dirs == subdirs(files, cur)
      Match(n) == n \in names \cup dirs /\ fnmatch(n, seg)
      MatchDir(n) == n \in dirs /\ fnmatch(n, seg)
  IN IF seg.k = "up"
     THEN IF rest = <<>>
          THEN << [rel |-> rel \o <<"..">>, dir |-> here, name |-> "..", isdir |-> TRUE] >>
          ELSE glob_walk(files, parent(cur), rel \o <<"..", "/">>, rest, order)
     ELSE IF rest = <<>>
          THEN LET sel == SelectSeq(order, Match)
               IN [i \in 1..Len(sel) |->
                     [rel |-> Append(rel, sel[i]), dir |-> here, name |-> sel[i],
                      isdir |-> sel[i] \in dirs]]
          ELSE glob_dirs(files, cur, rel, SelectSeq(order, MatchDir), rest, order)

glob_dirs(files, cur, rel, ds, rest, order) ==
  IF ds = <<>> THEN <<>>
  ELSE glob_walk(files, cur \o <<"/", Head(ds)>>, rel \o <<Head(ds), "/">>, rest, order)
       \o glob_dirs(files, cur, rel, Tail(ds), rest, order)

glob(pattern, files, root_dir, order) == glob_walk(files, root_dir, <<>>, pattern, order)

\* The loop over matched_filenames of a file_list return: one entry per
\* match, read from <job path>/<match>; a match that is a directory cannot
\* be opened.
RECURSIVE read_matches(_, _, _, _)
read_matches(st, files, arg_name, matches) ==
  IF matches = <<>> \/ st.exc # NoExc THEN st
  ELSE LET m == Head(matches) IN
       read_matches(
         IF m.isdir
         THEN [st EXCEPT !.exc = Exc("IsADirectoryError", m.name)]
         ELSE [st EXCEPT !.ret = DictSet(@, arg_name,
                                   Append(@[arg_name],
                                          [body |-> to_base64(files[m.dir][m.name]),
                                           fielname |-> m.rel, mimetype |-> "",
                                           encoding |-> "base64"])),
                         !.events = Append(@, FileEv("open_rb", arg_name, m.dir, m.name))],
         files, arg_name, Tail(matches))

\* The loop of execute over cmd_config['return']: ret, or the exception of
\* a declared return file that cannot be opened.
RECURSIVE assemble_loop(_, _, _, _, _)
assemble_loop(st, items, dir, out, jid) ==
  IF items = <<>> \/ st.exc # NoExc THEN st
  ELSE
    LET item == Head(items)
        payload(body) == [body |-> body, mimetype |-> "", encoding |-> "base64"]
        next ==
          IF item.shape = "str"
          THEN IF item.item \in {"stdout", "stderr"}
               THEN LET d == decode_utf8(IF item.item = "stdout" THEN out.stdout
                                         ELSE out.stderr)
                    IN IF d.ok THEN [st EXCEPT !.ret = DictSet(@, item.item, Str(d.text))]
                       ELSE [st EXCEPT !.exc = Exc("UnicodeDecodeError", item.item)]
               ELSE st
          ELSE IF item.type = "file"
          THEN IF dir.exists /\ item.filename \in DOMAIN dir.files
               THEN [st EXCEPT !.ret = DictSet(@, item.name,
                                               payload(to_base64(dir.files[item.filename]))),
                               !.events = Append(@, FileEv("open_rb", item.name,
                                                           dir.path, item.filename))]
               ELSE [st EXCEPT !.exc = Exc("FileNotFoundError", item.filename)]
          ELSE IF item.type \in {"stdout", "stderr"}
          THEN [st EXCEPT !.ret = DictSet(@, item.name,
                     payload(to_base64(IF item.type = "stdout" THEN out.stdout
                                       ELSE out.stderr)))]
          ELSE IF item.type = "file_list"
          THEN LET matched_filenames ==
                     IF item.glob # <<>> THEN glob(item.glob, dir.fs, dir.atoms, dir.order)
                     ELSE <<>>
               IN read_matches([st EXCEPT !.ret = DictSet(@, item.name, <<>>)],
                               dir.fs, item.name, matched_filenames)
          ELSE st
    IN assemble_loop(next, Tail(items), dir, out, jid)

\* The return loop made to fail on a non-zero return code, as a subprocess
\* call with check=True would.
assemble_checked(st, items, dir, out, jid) ==
  IF out.returncode # 0 THEN [st EXCEPT !.exc = Exc("CalledProcessError", "")]
  ELSE assemble_loop(st, items, dir, out, jid)

assemble(st, items, dir, out, jid) == assemble_loop(st, items, dir, out, jid)

\* What a subprocess can do before it exits: its return code, its output
\* streams and whether it writes the declared return files into its
\* working directory.
ProcOutcomes ==
  { [returncode |-> 0, stdout |-> <<"out">>, stderr |-> <<>>, creates |-> TRUE],
    [returncode |-> 0, stdout |-> <<"out">>, stderr |-> <<>>, creates |-> FALSE],
    [returncode |-> 1, stdout |-> <<>>, stderr |-> <<"err">>, creates |-> TRUE],
    [returncode |-> 0, stdout |-> <<"xFF">>, stderr |-> <<>>, creates |-> TRUE],
    [returncode |-> 0, stdout |-> <<"out">>, stderr |-> <<"xFF">>, creates |-> TRUE],
    [returncode |-> 1, stdout |-> <<>>, stderr |-> <<"err">>, creates |-> FALSE] }

NoProc == [returncode |-> -1, stdout |-> <<>>, stderr |-> <<>>, creates |-> FALSE]

\* The files named by the structured file returns of a command.
ReturnFiles(cfg) ==
  { cfg.return[i].filename :
      i \in { j \in 1..Len(cfg.return) :
                cfg.return[j].shape = "dict" /\ cfg.return[j].type = "file" } }

\* ------------------------------------------------------------------- state
VARIABLES
  pc,            \* where each invocation stands
  request,       \* process_web_cmd's arguments (cmd, json_data, files)
  cmd_config,    \* CmdSession.cmd_config
  job_id,        \* CmdSession.job_id
  params_cache,  \* CmdSession._params_cache
  kwargs,        \* run's **kwargs
  param_iter,    \* preprocess_params' position in cmd_config['params']
  cmd,           \* run's cmd, the built command line
  args_list,     \* prepare_cmd's args_list, the rendered command items
  proc,          \* the subprocess: return code and captured streams
  result,        \* execute's ret
  exc,           \* the exception propagating through run, if any
  outcome,       \* what process_web_cmd returned or raised
  runs,          \* the number of run() calls made on the session
  fs,            \* the file system: directory path -> (file name -> bytes)
  log,           \* the logging sink: job id -> the records carrying it
  uuid_count,    \* the number of uuid4() values drawn
  trace          \* per session, the accesses and steps of its current run, in order

vars == <<pc, request, cmd_config, job_id, params_cache, kwargs, param_iter, cmd,
          args_list, proc, result, exc, outcome, runs, fs, log, uuid_count, trace>>

NoRequest == Request("", EmptyDict, <<>>)
NoOutcome == [kind |-> "none"]
Returned(ok, payload) == [kind |-> "return", success |-> ok, payload |-> payload]
Raised(e) == [kind |-> "raise", exc |-> e]

\* No invocation made yet.
InitSessions ==
  /\ pc = [s \in Sessions |-> "new"]
  /\ request = [s \in Sessions |-> NoRequest]
  /\ cmd_config = [s \in Sessions |-> None]
  /\ job_id = [s \in Sessions |-> NoJob]
  /\ params_cache = [s \in Sessions |-> EmptyDict]
  /\ kwargs = [s \in Sessions |-> EmptyDict]
  /\ param_iter = [s \in Sessions |-> 0]
  /\ cmd = [s \in Sessions |-> <<>>]
  /\ args_list = [s \in Sessions |-> <<>>]
  /\ proc = [s \in Sessions |-> NoProc]
  /\ result = [s \in Sessions |-> EmptyDict]
  /\ exc = [s \in Sessions |-> NoExc]
  /\ outcome = [s \in Sessions |-> NoOutcome]
  /\ runs = [s \in Sessions |-> 0]
  /\ log = [j \in {} |-> <<>>]
  /\ uuid_count = 0
  /\ trace = [s \in Sessions |-> <<>>]

\* The server starts with no directory under its working directories.
Init ==
  /\ InitSessions
  /\ fs = [p \in {} |-> EmptyDict]

\* The server starts with a directory of someone else's under /tmp.
InitRun ==
  /\ InitSessions
  /\ fs = DictSet([p \in {} |-> EmptyDict], "/tmp/other",
                  DictSet(EmptyDict, "a.txt", <<"theirs">>))

\* The places where a run is suspended in an await that yields to the event
\* loop (create_subprocess_shell, communicate), not yet started, or over.
SuspendedAt == {"new", "create_subprocess_shell", "communicate", "returned", "raised"}

\* asyncio runs one task at a time and switches only where a task is
\* suspended: s may step when no other invocation is between two awaits.
MayStep(s) == \A t \in Sessions \ {s} : pc[t] \in SuspendedAt

\* The merge at the head of process_web_cmd: json_data, then every uploaded
\* file under its own filename.
RECURSIVE add_files(_, _)
add_files(cmd_args, files) ==
  IF files = <<>> THEN cmd_args
  ELSE add_files(DictSet(cmd_args, Head(files).filename, Head(files).file), Tail(files))

cmd_args_of(req) == add_files(DictUpdate(EmptyDict, req.json_data), req.files)

\* process_web_cmd without its `if not cmd_config` return: an unknown command
\* is run with an empty config.
process_web_cmd_unchecked(s, req) ==
  /\ MayStep(s)
  /\ pc[s] = "new"
  /\ \A t \in Sessions : t < s => pc[t] # "new"
  /\ request' = [request EXCEPT ![s] = req]
  /\ LET found == get_cmd_config(req.cmd)
         cfg == IF found = None
                THEN [name |-> req.cmd, cwd |-> <<>>, params |-> <<>>,
                      command |-> <<>>, return |-> <<>>]
                ELSE found
     IN /\ cmd_config' = [cmd_config EXCEPT ![s] = cfg]
        /\ job_id' = [job_id EXCEPT ![s] = NoJob]
        /\ params_cache' = [params_cache EXCEPT ![s] = EmptyDict]
        /\ kwargs' = [kwargs EXCEPT ![s] = cmd_args_of(req)]
        /\ runs' = [runs EXCEPT ![s] = 1]
        /\ trace' = [trace EXCEPT ![s] = <<Ev("run", "", "")>>]
        /\ pc' = [pc EXCEPT ![s] = "job_context"]
  /\ UNCHANGED <<outcome, param_iter, cmd, args_list, proc, result, exc, fs, log, uuid_count>>

\* process_web_cmd(cmd, json_data, files) up to the call of run: an unknown
\* command returns the failure pair, a known one gets a fresh CmdSession.
\* Sessions are taken in index order (they are interchangeable).
process_web_cmd(s, req) ==
  /\ MayStep(s)
  /\ pc[s] = "new"
  /\ \A t \in Sessions : t < s => pc[t] # "new"
  /\ request' = [request EXCEPT ![s] = req]
  /\ LET cfg == get_cmd_config(req.cmd) IN
     IF cfg = None
     THEN /\ outcome' = [outcome EXCEPT ![s] =
                           Returned(FALSE, [code |-> 1, message |-> req.cmd])]
          /\ pc' = [pc EXCEPT ![s] = "returned"]
          /\ UNCHANGED <<cmd_config, job_id, params_cache, kwargs, runs, trace>>
     ELSE /\ cmd_config' = [cmd_config EXCEPT ![s] = cfg]
          /\ job_id' = [job_id EXCEPT ![s] = NoJob]
          /\ params_cache' = [params_cache EXCEPT ![s] = EmptyDict]
          /\ kwargs' = [kwargs EXCEPT ![s] = cmd_args_of(req)]
          /\ runs' = [runs EXCEPT ![s] = 1]
          /\ trace' = [trace EXCEPT ![s] = <<Ev("run", "", "")>>]
          /\ pc' = [pc EXCEPT ![s] = "job_context"]
          /\ UNCHANGED outcome
  /\ UNCHANGED <<param_iter, cmd, args_list, proc, result, exc, fs, log, uuid_count>>

\* job_context up to its yield: a new uuid4 job id, then ensure_job_path
\* (os.makedirs with exist_ok), which the file system may refuse.
job_context_enter(s) ==
  /\ MayStep(s)
  /\ pc[s] = "job_context"
  /\ LET jid == "u" \o ToString(uuid_count + 1)
         path == get_job_path(cmd_config[s], jid)
     IN /\ uuid_count' = uuid_count + 1
        /\ job_id' = [job_id EXCEPT ![s] = jid]
        /\ \E io_ok \in BOOLEAN :
             IF io_ok
             THEN /\ fs' = IF path \in DOMAIN fs THEN fs ELSE DictSet(fs, path, EmptyDict)
                  /\ trace' = [trace EXCEPT ![s] =
                                 @ \o <<Ev("uuid4", jid, ""), Ev("makedirs", jid, path)>>]
                  /\ param_iter' = [param_iter EXCEPT ![s] = 1]
                  /\ pc' = [pc EXCEPT ![s] = "preprocess_params"]
                  /\ UNCHANGED exc
             ELSE /\ exc' = [exc EXCEPT ![s] = Exc("OSError", path)]
                  /\ trace' = [trace EXCEPT ![s] = Append(@, Ev("uuid4", jid, ""))]
                  /\ pc' = [pc EXCEPT ![s] = "finally"]
                  /\ UNCHANGED <<fs, param_iter>>
  /\ UNCHANGED <<request, cmd_config, params_cache, kwargs, cmd, args_list, proc, result,
                 outcome, runs, log>>

\* preprocess_params that resolves nothing, leaving every parameter to its
\* first reference in the command.
preprocess_params_lazy(s) ==
  /\ MayStep(s)
  /\ pc[s] = "preprocess_params"
  /\ param_iter[s] <= Len(cmd_config[s].params)
  /\ param_iter' = [param_iter EXCEPT ![s] = @ + 1]
  /\ UNCHANGED <<pc, request, cmd_config, job_id, params_cache, kwargs, cmd, args_list, proc,
                 result, exc, outcome, runs, fs, log, uuid_count, trace>>

\* preprocess_params that resolves the plain parameters only, leaving every
\* file parameter to its first reference in the command.
preprocess_params_plain(s) ==
  /\ MayStep(s)
  /\ pc[s] = "preprocess_params"
  /\ param_iter[s] <= Len(cmd_config[s].params)
  /\ \E io_ok \in BOOLEAN :
       LET names == IF cmd_config[s].params[param_iter[s]].type = "file" THEN <<>>
                    ELSE <<cmd_config[s].params[param_iter[s]].name>>
           r == get_params(params_cache[s], fs, cmd_config[s], job_id[s], names,
                           kwargs[s], io_ok)
       IN /\ params_cache' = [params_cache EXCEPT ![s] = r.cache]
          /\ fs' = r.fs
          /\ exc' = [exc EXCEPT ![s] = r.exc]
          /\ trace' = [trace EXCEPT ![s] = (@ \o <<Ev("resolve", "", "")>>) \o r.events]
          /\ pc' = [pc EXCEPT ![s] = IF r.exc = NoExc THEN "preprocess_params"
                                     ELSE "finally"]
  /\ param_iter' = [param_iter EXCEPT ![s] = @ + 1]
  /\ UNCHANGED <<request, cmd_config, job_id, kwargs, cmd, args_list, proc, result,
                 outcome, runs, log, uuid_count>>

\* One iteration of preprocess_params: get_params for the next declared
\* parameter.  An exception leaves the loop for job_context's finally.
preprocess_params(s) ==
  /\ MayStep(s)
  /\ pc[s] = "preprocess_params"
  /\ param_iter[s] <= Len(cmd_config[s].params)
  /\ \E io_ok \in BOOLEAN :
       LET r == get_params(params_cache[s], fs, cmd_config[s], job_id[s],
                           <<cmd_config[s].params[param_iter[s]].name>>, kwargs[s], io_ok)
       IN /\ params_cache' = [params_cache EXCEPT ![s] = r.cache]
          /\ fs' = r.fs
          /\ exc' = [exc EXCEPT ![s] = r.exc]
          /\ trace' = [trace EXCEPT ![s] = (@ \o <<Ev("resolve", "", "")>>) \o r.events]
          /\ pc' = [pc EXCEPT ![s] = IF r.exc = NoExc THEN "preprocess_params"
                                     ELSE "finally"]
  /\ param_iter' = [param_iter EXCEPT ![s] = @ + 1]
  /\ UNCHANGED <<request, cmd_config, job_id, kwargs, cmd, args_list, proc, result, outcome,
                 runs, log, uuid_count>>

\* preprocess_params' loop left before the last declared parameter.
preprocess_done_early(s) ==
  /\ MayStep(s)
  /\ pc[s] = "preprocess_params"
  /\ param_iter[s] >= Len(cmd_config[s].params)
  /\ pc' = [pc EXCEPT ![s] = "prepare_cmd"]
  /\ UNCHANGED <<request, cmd_config, job_id, params_cache, kwargs, param_iter, cmd, args_list,
                 proc, result, exc, outcome, runs, fs, log, uuid_count, trace>>

\* The end of preprocess_params' loop.
preprocess_done(s) ==
  /\ MayStep(s)
  /\ pc[s] = "preprocess_params"
  /\ param_iter[s] > Len(cmd_config[s].params)
  /\ pc' = [pc EXCEPT ![s] = "prepare_cmd"]
  /\ UNCHANGED <<request, cmd_config, job_id, params_cache, kwargs, param_iter, cmd, args_list,
                 proc, result, exc, outcome, runs, fs, log, uuid_count, trace>>

\* run's call of prepare_cmd.
build_cmd(s) ==
  /\ MayStep(s)
  /\ pc[s] = "prepare_cmd"
  /\ \E io_ok \in BOOLEAN :
       LET r == prepare_cmd(params_cache[s], fs, cmd_config[s], job_id[s], kwargs[s],
                            io_ok)
       IN /\ params_cache' = [params_cache EXCEPT ![s] = r.cache]
          /\ fs' = r.fs
          /\ exc' = [exc EXCEPT ![s] = r.exc]
          /\ cmd' = [cmd EXCEPT ![s] = r.text]
          /\ args_list' = [args_list EXCEPT ![s] = r.args_list]
          /\ trace' = [trace EXCEPT ![s] = (@ \o <<Ev("build", "", "")>>) \o r.events]
          /\ pc' = [pc EXCEPT ![s] = IF r.exc = NoExc THEN "log_cmd" ELSE "finally"]
  /\ UNCHANGED <<request, cmd_config, job_id, kwargs, param_iter, proc, result,
                 outcome, runs, log, uuid_count>>

\* util.json_log_info(data): one record to the logging sink.
json_log_info(sink, data) ==
  DictSet(sink, data.job_id, Append(DictGetSeq(sink, data.job_id), data))

\* run's record of the command built.
log_cmd(s) ==
  /\ MayStep(s)
  /\ pc[s] = "log_cmd"
  /\ log' = json_log_info(log, [job_id |-> job_id[s], kind |-> "cmd", cmd |-> cmd[s],
                                returncode |-> 0, stderr |-> <<>>])
  /\ trace' = [trace EXCEPT ![s] = Append(@, Ev("log_cmd", job_id[s], ""))]
  /\ pc' = [pc EXCEPT ![s] = "execute"]
  /\ UNCHANGED <<request, cmd_config, job_id, params_cache, kwargs, param_iter, cmd, args_list,
                 proc, result, exc, outcome, runs, fs, uuid_count>>

\* execute up to its first await: create_subprocess_shell is called with the
\* job path as working directory.
spawn(s) ==
  /\ MayStep(s)
  /\ pc[s] = "execute"
  /\ trace' = [trace EXCEPT ![s] =
                 Append(@, Ev("spawn", job_id[s], get_job_path(cmd_config[s], job_id[s])))]
  /\ pc' = [pc EXCEPT ![s] = "create_subprocess_shell"]
  /\ UNCHANGED <<request, cmd_config, job_id, params_cache, kwargs, param_iter, cmd, args_list,
                 proc, result, exc, outcome, runs, fs, log, uuid_count>>

\* create_subprocess_shell returning: the subprocess runs, or could not be
\* started (the working directory is missing, the system refuses).
spawned(s) ==
  /\ MayStep(s)
  /\ pc[s] = "create_subprocess_shell"
  /\ LET path == trace[s][Len(trace[s])].path IN
     \E os_ok \in BOOLEAN :
       IF os_ok /\ path \in DOMAIN fs
       THEN /\ trace' = [trace EXCEPT ![s] = Append(@, Ev("started", "", path))]
            /\ pc' = [pc EXCEPT ![s] = "communicate"]
            /\ UNCHANGED exc
       ELSE /\ exc' = [exc EXCEPT ![s] = Exc("OSError", "spawn")]
            /\ trace' = [trace EXCEPT ![s] = Append(@, Ev("spawn_failed", "", path))]
            /\ pc' = [pc EXCEPT ![s] = "finally"]
  /\ UNCHANGED <<request, cmd_config, job_id, params_cache, kwargs, param_iter, cmd, args_list,
                 proc, result, outcome, runs, fs, log, uuid_count>>

\* process.communicate() returning: the subprocess has exited with some
\* return code, having written (or not) the declared return files into the
\* directory it was started in.
communicate(s) ==
  /\ MayStep(s)
  /\ pc[s] = "communicate"
  /\ \E out \in ProcOutcomes :
       LET path == trace[s][Len(trace[s])].path
           made == IF out.creates THEN ReturnFiles(cmd_config[s]) ELSE {}
       IN /\ out.creates => made # {}
          /\ proc' = [proc EXCEPT ![s] = out]
          /\ fs' = IF path \in DOMAIN fs
                   THEN [fs EXCEPT ![path] =
                           [n \in DOMAIN @ \cup made |->
                              IF n \in made THEN <<"made">> ELSE @[n]]]
                   ELSE fs
  /\ trace' = [trace EXCEPT ![s] = Append(@, Ev("exit", "", ""))]
  /\ pc' = [pc EXCEPT ![s] = "log_exec"]
  /\ UNCHANGED <<request, cmd_config, job_id, params_cache, kwargs, param_iter, cmd, args_list,
                 result, exc, outcome, runs, log, uuid_count>>

\* execute's record of the execution, with stderr decoded; stderr that is
\* not UTF-8 raises before anything is recorded.
log_exec(s) ==
  /\ MayStep(s)
  /\ pc[s] = "log_exec"
  /\ LET d == decode_utf8(proc[s].stderr) IN
     IF d.ok
     THEN /\ log' = json_log_info(log, [job_id |-> job_id[s], kind |-> "exec",
                                        cmd |-> <<>>,
                                        returncode |-> proc[s].returncode,
                                        stderr |-> d.text])
          /\ trace' = [trace EXCEPT ![s] = Append(@, Ev("log_exec", job_id[s], ""))]
          /\ pc' = [pc EXCEPT ![s] = "assemble"]
          /\ UNCHANGED exc
     ELSE /\ exc' = [exc EXCEPT ![s] = Exc("UnicodeDecodeError", "stderr")]
          /\ pc' = [pc EXCEPT ![s] = "finally"]
          /\ UNCHANGED <<log, trace>>
  /\ UNCHANGED <<request, cmd_config, job_id, params_cache, kwargs, param_iter, cmd, args_list,
                 proc, result, outcome, runs, fs, uuid_count>>

\* The entries the globs of a command's file_list returns make the
\* operating system list: none when there is no such return.
ScannedNames(cfg, files) ==
  IF \E i \in 1..Len(cfg.return) :
       /\ cfg.return[i].shape = "dict" /\ cfg.return[i].type = "file_list"
       /\ cfg.return[i].glob # <<>>
  THEN subdirs(files, parent(job_path_atoms(cfg, NoJob)))
       \cup UNION { DOMAIN files[p] : p \in DOMAIN files }
  ELSE {}

\* The rest of execute: ret from cmd_config['return'], then job_id.  The
\* order in which directories are listed is the operating system's.
assemble_result(s) ==
  /\ MayStep(s)
  /\ pc[s] = "assemble"
  /\ \E order \in Orderings(ScannedNames(cmd_config[s], fs)) :
     LET path == get_job_path(cmd_config[s], job_id[s])
         dir == [path |-> path, exists |-> path \in DOMAIN fs,
                 files |-> IF path \in DOMAIN fs THEN fs[path] ELSE EmptyDict,
                 atoms |-> job_path_atoms(cmd_config[s], job_id[s]),
                 fs |-> fs, order |-> order]
         r == assemble([ret |-> EmptyDict, exc |-> NoExc, events |-> <<>>],
                       cmd_config[s].return, dir, proc[s], job_id[s])
     IN /\ exc' = [exc EXCEPT ![s] = r.exc]
        /\ result' = [result EXCEPT ![s] =
                        IF r.exc = NoExc THEN DictSet(r.ret, "job_id", Str(<<job_id[s]>>))
                        ELSE EmptyDict]
        /\ trace' = [trace EXCEPT ![s] = (@ \o <<Ev("assemble", "", "")>>) \o r.events]
  /\ pc' = [pc EXCEPT ![s] = "finally"]
  /\ UNCHANGED <<request, cmd_config, job_id, params_cache, kwargs, param_iter, cmd, args_list,
                 proc, outcome, runs, fs, log, uuid_count>>

\* CmdSession.clean_job_path: shutil.rmtree of the current job path, a
\* missing directory being ignored.
clean_job_path(files, cfg, jid) ==
  LET path == get_job_path(cfg, jid)
  IN [p \in DOMAIN files \ {path} |-> files[p]]

\* job_context without try/finally: the job path is removed only when the
\* body raised nothing.
job_context_exit_no_finally(s) ==
  /\ MayStep(s)
  /\ pc[s] = "finally"
  /\ fs' = IF exc[s] = NoExc THEN clean_job_path(fs, cmd_config[s], job_id[s]) ELSE fs
  /\ trace' = [trace EXCEPT ![s] =
                 Append(@, Ev("rmtree", job_id[s], get_job_path(cmd_config[s], job_id[s])))]
  /\ job_id' = [job_id EXCEPT ![s] = NoJob]
  /\ IF exc[s] = NoExc
     THEN /\ outcome' = [outcome EXCEPT ![s] = Returned(TRUE, result[s])]
          /\ pc' = [pc EXCEPT ![s] = "returned"]
     ELSE /\ outcome' = [outcome EXCEPT ![s] = Raised(exc[s])]
          /\ pc' = [pc EXCEPT ![s] = "raised"]
  /\ UNCHANGED <<request, cmd_config, params_cache, kwargs, param_iter, cmd, args_list, proc,
                 result, exc, runs, log, uuid_count>>

\* job_context's finally and the end of run: the job path is removed, the
\* job id reset, and run returns (True, result) or lets the exception go.
job_context_exit(s) ==
  /\ MayStep(s)
  /\ pc[s] = "finally"
  /\ fs' = clean_job_path(fs, cmd_config[s], job_id[s])
  /\ trace' = [trace EXCEPT ![s] =
                 Append(@, Ev("rmtree", job_id[s], get_job_path(cmd_config[s], job_id[s])))]
  /\ job_id' = [job_id EXCEPT ![s] = NoJob]
  /\ IF exc[s] = NoExc
     THEN /\ outcome' = [outcome EXCEPT ![s] = Returned(TRUE, result[s])]
          /\ pc' = [pc EXCEPT ![s] = "returned"]
     ELSE /\ outcome' = [outcome EXCEPT ![s] = Raised(exc[s])]
          /\ pc' = [pc EXCEPT ![s] = "raised"]
  /\ UNCHANGED <<request, cmd_config, params_cache, kwargs, param_iter, cmd, args_list, proc,
                 result, exc, runs, log, uuid_count>>

\* A further call of run(**kw) on a CmdSession whose previous run is over.
run_again(s, kw) ==
  /\ MayStep(s)
  /\ pc[s] \in {"returned", "raised"}
  /\ cmd_config[s] # None
  /\ runs[s] < MaxRuns
  /\ runs' = [runs EXCEPT ![s] = @ + 1]
  /\ kwargs' = [kwargs EXCEPT ![s] = kw]
  /\ exc' = [exc EXCEPT ![s] = NoExc]
  /\ outcome' = [outcome EXCEPT ![s] = NoOutcome]
  /\ result' = [result EXCEPT ![s] = EmptyDict]
  /\ cmd' = [cmd EXCEPT ![s] = <<>>]
  /\ args_list' = [args_list EXCEPT ![s] = <<>>]
  /\ proc' = [proc EXCEPT ![s] = NoProc]
  /\ param_iter' = [param_iter EXCEPT ![s] = 0]
  /\ trace' = [trace EXCEPT ![s] = <<Ev("run", "", "")>>]
  /\ pc' = [pc EXCEPT ![s] = "job_context"]
  /\ UNCHANGED <<request, cmd_config, job_id, params_cache, fs, log, uuid_count>>

\* The caller values run may be given for the session's command.
KwargsFor(cfg) ==
  IF cfg = None THEN {}
  ELSE { cmd_args_of(r) : r \in { q \in Requests : q.cmd = cfg.name } }

Next ==
  \/ \E s \in Sessions : \E req \in Requests : process_web_cmd(s, req)
  \/ \E s \in Sessions : job_context_enter(s)
  \/ \E s \in Sessions : preprocess_params(s)
  \/ \E s \in Sessions : preprocess_done(s)
  \/ \E s \in Sessions : build_cmd(s)
  \/ \E s \in Sessions : log_cmd(s)
  \/ \E s \in Sessions : spawn(s)
  \/ \E s \in Sessions : spawned(s)
  \/ \E s \in Sessions : communicate(s)
  \/ \E s \in Sessions : log_exec(s)
  \/ \E s \in Sessions : assemble_result(s)
  \/ \E s \in Sessions : job_context_exit(s)

\* Every invocation through process_web_cmd: one CmdSession per run.
Spec == Init /\ [][Next]_vars

\* Command configs a CmdSession can be made for.
\*   copy: a file parameter returned as a structured file, and a file
\*         parameter without a filename.
\*   list: file parameters no command item references, and file_list
\*         returns with the patterns *.txt and ../*/*.txt.
\*   tmpl: items with an escape only, an escape and a declared optional
\*         parameter, an undeclared name, $cwd and ${cwd_abs} (cwd_abs also
\*         being a declared parameter).
\*   bad:  items with a trailing $ and an unclosed ${.
RunConfigs ==
  { [name |-> "copy", cwd |-> <<"/", "tmp">>,
     params |-> << Param("f", FALSE, "file", "input.txt"), Param("g", FALSE, "file", "") >>,
     command |-> << <<Lit(<<"cat">>)>>, <<Named("f")>> >>,
     return |-> << Structured("copy", "file", "input.txt"), Bare("stdout") >>],
    [name |-> "list", cwd |-> <<"/", "tmp">>,
     params |-> << Param("a", FALSE, "file", "a.txt"), Param("b", FALSE, "file", "b.txt"),
                   Param("c", TRUE, "file", "c.log") >>,
     command |-> << <<Lit(<<"ls">>)>> >>,
     return |-> << FileList("txts", <<Star(".txt")>>),
                   FileList("all", <<Up, Star(""), Star(".txt")>>),
                   FileList("none", <<>>) >>],
    [name |-> "tmpl", cwd |-> <<>>,
     params |-> << Param("opt", FALSE, "plain", ""), Param("cwd_abs", FALSE, "plain", "") >>,
     command |-> << <<Lit(<<"run">>)>>, <<Lit(<<"price">>), Escaped>>,
                    <<Escaped, Named("opt")>>, <<Named("extra")>>,
                    <<Named("cwd"), Lit(<<"/x">>)>>, <<Braced("cwd_abs")>> >>,
     return |-> << Bare("stdout") >>],
    [name |-> "bad", cwd |-> <<>>,
     params |-> << >>,
     command |-> << <<Lit(<<"echo">>)>>, <<Lit(<<"cost">>), Invalid>>,
                    <<Invalid, Lit(<<"{", "x">>)>> >>,
     return |-> << Bare("stdout") >>] }

\* The caller values run is given for each of them.
RunKwargs(cfg) ==
  CASE cfg.name = "copy" ->
         { EmptyDict,
           [f |-> Bytes(<<"hello">>)],
           [f |-> Bytes(<<>>), g |-> Bytes(<<"more">>)],
           [f |-> Bytes(<<"xFF", "hello">>)] }
    [] cfg.name = "list" ->
         { [c |-> Bytes(<<"log">>)],
           [a |-> Bytes(<<"one">>), b |-> Bytes(<<"two">>), c |-> Bytes(<<"log">>)] }
    [] cfg.name = "tmpl" ->
         { EmptyDict,
           [opt |-> Str(<<"v">>), cwd_abs |-> Str(<<"/etc">>)],
           [opt |-> Str(<<>>), extra |-> Str(<<"a", ";", "rm">>)],
           [opt |-> Str(<<"$", "HOME">>), extra |-> Str(<<"x", " ", "|", " ", "y">>)],
           [opt |-> Str(<<"v">>), extra |-> Str(<<"'", ";", "'", "&", "\"", " ", "\"">>)],
           [extra |-> Str(<<"'">>)],
           [extra |-> Bytes(<<"data">>)],
           [opt |-> Str(<<"v">>), cwd |-> Str(<<"/etc">>)] }
    [] OTHER -> { EmptyDict, [x |-> Str(<<"1">>)] }

\* CmdSession(cmd_config) and the call of run(**kw) on the new object.
CmdSession_run(s, cfg, kw) ==
  /\ MayStep(s)
  /\ pc[s] = "new"
  /\ cmd_config' = [cmd_config EXCEPT ![s] = cfg]
  /\ job_id' = [job_id EXCEPT ![s] = NoJob]
  /\ params_cache' = [params_cache EXCEPT ![s] = EmptyDict]
  /\ kwargs' = [kwargs EXCEPT ![s] = kw]
  /\ runs' = [runs EXCEPT ![s] = 1]
  /\ trace' = [trace EXCEPT ![s] = <<Ev("run", "", "")>>]
  /\ pc' = [pc EXCEPT ![s] = "job_context"]
  /\ UNCHANGED <<request, outcome, param_iter, cmd, args_list, proc, result, exc, fs,
                 log, uuid_count>>

\* One CmdSession (session 1) made for any of RunConfigs, run once.
NextRun ==
  \/ \E cfg \in RunConfigs : \E kw \in RunKwargs(cfg) : CmdSession_run(1, cfg, kw)
  \/ job_context_enter(1)
  \/ preprocess_params(1)
  \/ preprocess_done(1)
  \/ build_cmd(1)
  \/ log_cmd(1)
  \/ spawn(1)
  \/ spawned(1)
  \/ communicate(1)
  \/ log_exec(1)
  \/ assemble_result(1)
  \/ job_context_exit(1)

SpecRun == InitRun /\ [][NextRun]_vars

\* One CmdSession object (session 1) on which run is called again after it
\* has returned or raised; no other invocation is made.
NextReuse ==
  \/ Next /\ \A t \in Sessions \ {1} : pc'[t] = "new"
  \/ \E kw \in KwargsFor(cmd_config[1]) : run_again(1, kw)

SpecReuse == Init /\ [][NextReuse]_vars

\* ------------------------------------------------------------ the properties
\* A run of session s has been started / is over.
Started(s) == cmd_config[s] # None /\ runs[s] >= 1
Ended(s) == pc[s] \in {"returned", "raised"}

\* The current run of s has made a step or access `op`.
HasEv(s, op) == \E i \in 1..Len(trace[s]) : trace[s][i].op = op

\* The job id the current run of s drew, and its scratch directory.
RunJob(s) == trace[s][CHOOSE i \in 1..Len(trace[s]) : trace[s][i].op = "uuid4"].name
RunPath(s) == get_job_path(cmd_config[s], RunJob(s))

\* From the start of parameter resolution to the end of result assembly.
DuringRun == {"preprocess_params", "prepare_cmd", "log_cmd", "execute",
              "create_subprocess_shell", "communicate", "log_exec", "assemble"}

\* The declared required parameters the caller gave no value for.
RequiredMissing(s) ==
  { cmd_config[s].params[i].name :
      i \in { j \in 1..Len(cmd_config[s].params) :
                /\ cmd_config[s].params[j].required
                /\ DictGet(kwargs[s], cmd_config[s].params[j].name) = None } }

\* C1: a run's scratch directory exists from the start of parameter
\* resolution until result assembly has ended (and up to the cleanup that
\* follows), and is absent once run has returned or raised, on the success
\* path and on every failure path.
C1_ScratchDirLifetime ==
  \A s \in Sessions :
    Started(s) =>
      /\ pc[s] \in DuringRun => RunPath(s) \in DOMAIN fs
      /\ pc[s] = "finally" /\ HasEv(s, "makedirs") => RunPath(s) \in DOMAIN fs
      /\ Ended(s) => HasEv(s, "uuid4") /\ RunPath(s) \notin DOMAIN fs

\* A run failed after its directory was made (here: a declared return file
\* is missing) and another returned success; both are over.
C1_Witness ==
  \E s, t \in Sessions :
    /\ pc[s] = "raised" /\ HasEv(s, "makedirs") /\ HasEv(s, "exit")
    /\ outcome[s].exc.type = "FileNotFoundError"
    /\ pc[t] = "returned" /\ Started(t)

\* C2: a run that misses a required parameter never builds or logs a
\* command and never spawns a subprocess, and it ends by raising the
\* validation error that names a missing parameter (or the I/O error of the
\* file system refusing the directory or an earlier file parameter).
C2_RequiredBeforeSpawn ==
  \A s \in Sessions :
    Started(s) /\ RequiredMissing(s) # {} =>
      /\ pc[s] \in {"job_context", "preprocess_params", "finally", "raised"}
      /\ ~HasEv(s, "build") /\ ~HasEv(s, "log_cmd") /\ ~HasEv(s, "spawn")
      /\ ~HasEv(s, "log_exec")
      /\ HasEv(s, "uuid4") => RunJob(s) \notin DOMAIN log
      /\ Ended(s) =>
           /\ outcome[s].kind = "raise"
           /\ \/ outcome[s].exc.type = "OSError"
              \/ /\ outcome[s].exc.type = "ValueError"
                 /\ outcome[s].exc.arg \in RequiredMissing(s)

\* A run missing a required parameter that no command item references has
\* raised the validation error.
C2_Witness ==
  \E s \in Sessions :
    /\ Started(s) /\ pc[s] = "raised" /\ request[s].cmd = "conv"
    /\ outcome[s].exc.type = "ValueError"
    /\ outcome[s].exc.arg \in RequiredMissing(s)

\* C3 (as claimed): when the validation error for a missing required
\* parameter is raised, the scratch directory holds no file.
C3_NoFilesAtValidationError ==
  \A s \in Sessions :
    /\ Started(s) /\ pc[s] = "finally"
    /\ exc[s].type = "ValueError" /\ exc[s].arg \in RequiredMissing(s)
    => /\ RunPath(s) \in DOMAIN fs
       /\ fs[RunPath(s)] = EmptyDict

\* C4 (as claimed): an invocation for an unknown command or with a required
\* parameter missing ends by returning (False, payload), never by raising
\* (the file system working).
C4_FailureIsReturned ==
  \A s \in Sessions :
    /\ Ended(s)
    /\ request[s].cmd \notin CmdNames \/ RequiredMissing(s) # {}
    /\ exc[s].type # "OSError"
    => /\ outcome[s].kind = "return"
       /\ ~outcome[s].success

\* C5: an invocation for a command name that is not in the registry has
\* returned failure, and has drawn no job id, made no directory, resolved no
\* parameter and spawned nothing: every job id drawn and every directory
\* that exists belongs to a run of a known command.
C5_UnknownCommand ==
  /\ \A s \in Sessions :
       pc[s] # "new" /\ request[s].cmd \notin CmdNames =>
         /\ pc[s] = "returned"
         /\ outcome[s] = Returned(FALSE, [code |-> 1, message |-> request[s].cmd])
         /\ trace[s] = <<>> /\ runs[s] = 0
         /\ job_id[s] = NoJob /\ cmd_config[s] = None
         /\ params_cache[s] = EmptyDict
  /\ uuid_count = Cardinality({ s \in Sessions : HasEv(s, "uuid4") })
  /\ \A p \in DOMAIN fs :
       \E s \in Sessions : request[s].cmd \in CmdNames /\ HasEv(s, "makedirs")
                            /\ RunPath(s) = p

\* An invocation for an unknown command has returned while another
\* invocation's run is suspended with its directory in place.
C5_Witness ==
  \E s, t \in Sessions :
    /\ request[s].cmd \notin CmdNames /\ pc[s] = "returned"
    /\ pc[t] = "communicate"

\* The caller values any request brings.
AllKwargs == { cmd_args_of(r) : r \in Requests }

\* C6: within one run, resolving a name that is already in the cache
\* returns the cached value, whatever the caller values are (they are not
\* read), writes no file and leaves the cache as it is; a cached value never
\* changes during the run; and no file-type parameter's file is written
\* twice, nor are kwargs read or files written for a name after it was
\* resolved (kwargs are read again only for a name that resolved to nothing).
C6_State ==
  \A s \in Sessions :
    Started(s) /\ pc[s] \in DuringRun =>
      /\ \A n \in DOMAIN params_cache[s] : \A kw \in AllKwargs : \A io_ok \in BOOLEAN :
           LET r == get_params(params_cache[s], fs, cmd_config[s], job_id[s], <<n>>,
                               kw, io_ok)
           IN /\ r.exc = NoExc
              /\ r.ret = DictSet(EmptyDict, n, params_cache[s][n])
              /\ r.cache = params_cache[s]
              /\ r.fs = fs
              /\ r.events = <<Ev("cache_hit", n, "")>>
      /\ \A i, j \in 1..Len(trace[s]) :
           i < j /\ trace[s][i].name = trace[s][j].name
                 /\ trace[s][j].op \in {"kwargs", "open_wb"}
           => /\ trace[s][i].op \notin {"open_wb", "cache_hit"}
              /\ trace[s][i].op = "kwargs" /\ trace[s][j].op = "kwargs"
                 => trace[s][i].name \notin DOMAIN params_cache[s]

C6_Step ==
  \A s \in Sessions :
    pc[s] \in DuringRun /\ pc'[s] \in DuringRun =>
      \A n \in DOMAIN params_cache[s] :
        n \in DOMAIN params_cache'[s] /\ params_cache'[s][n] = params_cache[s][n]

C6_ResolutionIdempotent == []C6_State /\ [][C6_Step]_vars

\* A run has resolved its file parameter a second time, from the cache, and
\* has returned.
C6_Witness ==
  \E s \in Sessions :
    /\ pc[s] = "returned" /\ Started(s)
    /\ \E i, j \in 1..Len(trace[s]) :
         /\ i < j
         /\ trace[s][i].op = "open_wb" /\ trace[s][i].name = "f"
         /\ trace[s][j].op = "cache_hit" /\ trace[s][j].name = "f"

\* C7 (as claimed): when the parameters of a run are resolved, every plain
\* parameter has the value this run's caller gave and every file-type
\* parameter's file is in this run's scratch directory, with this run's
\* bytes.
C7_CacheOwnedByRun ==
  \A s \in Sessions :
    Started(s) /\ pc[s] = "prepare_cmd" =>
      \A i \in 1..Len(cmd_config[s].params) :
        LET p == cmd_config[s].params[i]
            value == DictGet(kwargs[s], p.name)
            filename == IF p.filename # "" THEN p.filename ELSE p.name
        IN IF p.type = "file"
           THEN /\ filename \in DOMAIN fs[RunPath(s)]
                /\ fs[RunPath(s)][filename] = (IF Truthy(value) THEN value.v ELSE <<>>)
           ELSE params_cache[s][p.name] = value

\* The steps of run, in the order the claim gives them, and their ranks.
StepRank ==
  [run |-> 0, uuid4 |-> 1, makedirs |-> 2, resolve |-> 3, build |-> 4, log_cmd |-> 5,
   spawn |-> 6, started |-> 7, spawn_failed |-> 7, exit |-> 8, log_exec |-> 9,
   assemble |-> 10, rmtree |-> 11]
IsStep(e) == e.op \in DOMAIN StepRank
Steps(s) == SelectSeq(trace[s], IsStep)
IsResolve(e) == e.op = "resolve"

\* C8: the steps of one run happen in the order directory creation, then the
\* resolution of every declared parameter, then command construction, then
\* subprocess execution, then result assembly, then directory removal; no
\* step happens without the one before it, files are written and read only
\* between creation and removal, and removal is the last step on every path.
C8_StepOrder ==
  \A s \in Sessions :
    LET st == Steps(s)
        ops == { st[i].op : i \in 1..Len(st) }
    IN
    /\ \A i \in 1..(Len(st) - 1) :
         \/ StepRank[st[i].op] < StepRank[st[i + 1].op]
         \/ st[i].op = "resolve" /\ st[i + 1].op = "resolve"
    /\ "resolve" \in ops => "makedirs" \in ops
    /\ "build" \in ops =>
         Len(SelectSeq(st, IsResolve)) = Len(cmd_config[s].params)
    /\ "log_cmd" \in ops => "build" \in ops
    /\ "spawn" \in ops => "log_cmd" \in ops
    /\ "exit" \in ops => "started" \in ops
    /\ "assemble" \in ops => "log_exec" \in ops /\ "exit" \in ops
    /\ \A i \in 1..Len(trace[s]) :
         /\ trace[s][i].op = "open_wb" =>
              \E j \in 1..(i - 1) : trace[s][j].op \in {"resolve", "build"}
         /\ trace[s][i].op = "open_rb" =>
              \E j \in 1..(i - 1) : trace[s][j].op = "assemble"
         /\ trace[s][i].op = "rmtree" => i = Len(trace[s])
    /\ Started(s) => (Ended(s) <=> HasEv(s, "rmtree"))

\* A run with two declared parameters has gone through every step and
\* returned.
C8_Witness ==
  \E s \in Sessions :
    /\ pc[s] = "returned" /\ Started(s)
    /\ Len(cmd_config[s].params) = 2
    /\ HasEv(s, "open_rb") /\ HasEv(s, "rmtree")

\* The directory the current run of s made.
RunDir(s) == trace[s][CHOOSE i \in 1..Len(trace[s]) : trace[s][i].op = "makedirs"].path

MissingReturnFiles(s) ==
  { f \in ReturnFiles(cmd_config[s]) :
      /\ ~proc[s].creates
      /\ ~\E i \in 1..Len(trace[s]) : trace[s][i].op = "open_wb" /\ trace[s][i].file = f }

\* The records of the current run of s in the logging sink are one
\* command-build record and then one execution record, with its job id.
LoggedOnceEach(s) ==
  /\ RunJob(s) \in DOMAIN log
  /\ Len(log[RunJob(s)]) = 2
  /\ log[RunJob(s)][1].kind = "cmd" /\ log[RunJob(s)][1].cmd = cmd[s]
  /\ log[RunJob(s)][2].kind = "exec"
  /\ log[RunJob(s)][2].returncode = proc[s].returncode
  /\ \A i \in 1..2 : log[RunJob(s)][i].job_id = RunJob(s)

UndecodableReturns(s) ==
  { cmd_config[s].return[i].item :
      i \in { j \in 1..Len(cmd_config[s].return) :
                /\ cmd_config[s].return[j].shape = "str"
                /\ ~decode_utf8(IF cmd_config[s].return[j].item = "stdout"
                                THEN proc[s].stdout ELSE proc[s].stderr).ok } }

b64decode(body) == Tail(body.v)

\* The file a file-type parameter is written to, and the bytes written for
\* the caller values kw.
FileNameOf(p) == IF p.filename # "" THEN p.filename ELSE p.name
SuppliedBytes(kw, p) == IF Truthy(DictGet(kw, p.name)) THEN DictGet(kw, p.name).v ELSE <<>>

\* C11: for every file-type parameter, the resolved value is the relative
\* filename (so a command item that is just its placeholder renders to the
\* filename, never to the bytes), and when the command leaves the file
\* untouched, a structured file return on that filename has a body that
\* decodes to exactly the bytes the caller supplied.
C11_FileRoundTrip ==
  \A s \in Sessions :
    Started(s) =>
      \A i \in 1..Len(cmd_config[s].params) :
        LET p == cmd_config[s].params[i] IN
        p.type = "file" =>
          /\ p.name \in DOMAIN params_cache[s] =>
                params_cache[s][p.name] = Str(<<FileNameOf(p)>>)
          /\ \A k \in 1..Len(args_list[s]) :
                cmd_config[s].command[k] \in {<<Named(p.name)>>, <<Braced(p.name)>>}
                => args_list[s][k] = <<FileNameOf(p)>>
          /\ pc[s] = "returned" /\ ~proc[s].creates =>
                \A j \in 1..Len(cmd_config[s].return) :
                  LET e == cmd_config[s].return[j] IN
                  e.shape = "dict" /\ e.type = "file" /\ e.filename = FileNameOf(p)
                  => b64decode(outcome[s].payload[e.name].body)
                       = SuppliedBytes(kwargs[s], p)

\* A run given bytes that are not text for its file parameter has returned
\* them, the command having left the file alone, and rendered the
\* parameter's placeholder as the filename.
C11_Witness ==
  \E s \in Sessions :
    /\ pc[s] = "returned" /\ ~proc[s].creates
    /\ cmd_config[s].name = "copy"
    /\ kwargs[s] = [f |-> Bytes(<<"xFF", "hello">>)]
    /\ b64decode(outcome[s].payload["copy"].body) = <<"xFF", "hello">>
    /\ args_list[s][2] = <<"input.txt">>

\* C12 (as claimed): for every file-type parameter, the bytes of an upload
\* whose key is the parameter's declared filename are the bytes in
\* <scratch path>/<filename> once the parameters are resolved, and the
\* parameter is not reported missing.
C12_UploadReachesFile ==
  \A s \in Sessions :
    Started(s) /\ request[s].cmd \in CmdNames =>
      \A i \in 1..Len(cmd_config[s].params) : \A j \in 1..Len(request[s].files) :
        LET p == cmd_config[s].params[i]
            upload == request[s].files[j]
        IN p.type = "file" /\ upload.filename = FileNameOf(p) =>
             /\ pc[s] = "prepare_cmd" =>
                   /\ FileNameOf(p) \in DOMAIN fs[RunPath(s)]
                   /\ fs[RunPath(s)][FileNameOf(p)] = upload.file.v
             /\ ~(exc[s].type = "ValueError" /\ exc[s].arg = p.name)

\* The file_list returns of a command that have a pattern.
FileLists(cfg) ==
  { cfg.return[i] :
      i \in { j \in 1..Len(cfg.return) :
                /\ cfg.return[j].shape = "dict" /\ cfg.return[j].type = "file_list"
                /\ cfg.return[j].glob # <<>> } }

\* C13 (as claimed): when result assembly is done, a file_list return has
\* exactly one entry per file of the run's scratch directory that matches
\* the pattern (its last segment), and every file read for the result lies
\* in the run's scratch directory.
C13_GlobStaysInScratch ==
  \A s \in Sessions :
    Started(s) /\ pc[s] = "finally" /\ HasEv(s, "assemble") /\ exc[s] = NoExc =>
      /\ \A e \in FileLists(cmd_config[s]) :
           LET entries == result[s][e.name]
               last == e.glob[Len(e.glob)]
           IN /\ \A i, j \in 1..Len(entries) :
                   i # j => entries[i].fielname # entries[j].fielname
              /\ Len(entries)
                   = Cardinality({ n \in DOMAIN fs[RunDir(s)] : fnmatch(n, last) })
      /\ \A i \in 1..Len(trace[s]) :
           trace[s][i].op = "open_rb" => trace[s][i].path = RunDir(s)

\* An item made of literal text and `$$` escapes only, with an escape.
OnlyEscapes(item) ==
  /\ \A i \in 1..Len(item) : item[i].k \in {"lit", "escaped"}
  /\ \E i \in 1..Len(item) : item[i].k = "escaped"

\* C14 (as claimed): a command item that has only `$$` escapes and literal
\* text has no identifiers and is rendered with a single `$` in place of
\* each `$$`, as substitution renders it.
C14_EscapeOnlyItems ==
  \A s \in Sessions :
    Started(s) /\ pc[s] = "log_cmd" =>
      \A k \in 1..Len(args_list[s]) :
        LET item == cmd_config[s].command[k] IN
        OnlyEscapes(item) =>
          /\ get_identifiers(item) = <<>>
          /\ args_list[s][k] = safe_substitute(item, EmptyDict)

\* The number of accesses `op` the current run of s made for the name n.
CountEv(s, op, n) ==
  Cardinality({ i \in 1..Len(trace[s]) : trace[s][i].op = op /\ trace[s][i].name = n })

\* The accesses the current run of s made from command construction on.
SinceBuild(s) ==
  LET b == CHOOSE i \in 1..Len(trace[s]) : trace[s][i].op = "build"
  IN SubSeq(trace[s], b, Len(trace[s]))

\* C15: when command construction begins, every declared parameter has
\* been resolved exactly once and is in the cache, and every file-type
\* parameter's file is in the scratch directory, referenced by a command
\* item or not; command construction writes no file, resolves the declared
\* parameters from the cache and raises no required-parameter error.
C15_BulkPreResolution ==
  \A s \in Sessions :
    Started(s) =>
      /\ pc[s] = "prepare_cmd" \/ HasEv(s, "build") =>
           \A i \in 1..Len(cmd_config[s].params) :
             LET p == cmd_config[s].params[i] IN
             /\ p.name \in DOMAIN params_cache[s]
             /\ CountEv(s, "kwargs", p.name) = 1
             /\ p.type = "file" => CountEv(s, "open_wb", p.name) = 1
             /\ pc[s] = "prepare_cmd" /\ p.type = "file" =>
                   FileNameOf(p) \in DOMAIN fs[RunDir(s)]
      /\ HasEv(s, "build") =>
           /\ \A i \in 1..Len(SinceBuild(s)) : SinceBuild(s)[i].op # "open_wb"
           /\ exc[s].type = "ValueError" => exc[s].arg = "No closing quotation"

\* Command construction has been done for a command none of whose items
\* references its three file parameters, one of them given no value; the
\* three files are in the scratch directory.
C15_Witness ==
  \E s \in Sessions :
    /\ pc[s] = "log_cmd" /\ cmd_config[s].name = "list"
    /\ kwargs[s] = [c |-> Bytes(<<"log">>)]
    /\ DOMAIN fs[RunDir(s)] = {"a.txt", "b.txt", "c.log"}
    /\ DOMAIN params_cache[s] = {"a", "b", "c"}

\* The names an item's placeholders reference.
Refs(item) == { item[i].n : i \in { j \in 1..Len(item) : item[j].k \in {"named", "braced"} } }

\* C16 (as claimed): a declared plain parameter that is not required and
\* that the caller gave no value resolves to an empty value, and an item
\* whose placeholders reference only that parameter is rendered with
\* nothing in their place.
C16_AbsentOptionalIsEmpty ==
  \A s \in Sessions :
    Started(s) /\ pc[s] = "log_cmd" =>
      \A i \in 1..Len(cmd_config[s].params) :
        LET p == cmd_config[s].params[i] IN
        p.type = "plain" /\ ~p.required /\ p.name \notin DOMAIN kwargs[s] =>
          /\ ~Truthy(params_cache[s][p.name])
          /\ \A k \in 1..Len(args_list[s]) :
               LET item == cmd_config[s].command[k] IN
               Refs(item) = {p.name} =>
                 args_list[s][k] = safe_substitute(item, DictSet(EmptyDict, p.name, Str(<<>>)))

\* The names of the declared parameters of a command.
Declared(cfg) == { cfg.params[i].name : i \in 1..Len(cfg.params) }

\* The names of the run-local environment of prepare_cmd.
EnvNames == {"cwd", "cwd_abs"}

\* C17 (as claimed): for a name with no ParamSpec that a command item
\* references, a caller value is cached as given and rendered as its text;
\* with no caller value the name is not in the resolver's result and an
\* item that references only that name is rendered as it is written.
C17_UndeclaredLeftLiteral ==
  \A s \in Sessions :
    Started(s) /\ pc[s] = "log_cmd" =>
      \A k \in 1..Len(args_list[s]) :
        LET item == cmd_config[s].command[k] IN
        \A n \in Refs(item) \ Declared(cmd_config[s]) :
          IF n \in DOMAIN kwargs[s]
          THEN /\ params_cache[s][n] = kwargs[s][n]
               /\ Refs(item) = {n} =>
                    args_list[s][k]
                      = safe_substitute(item, DictSet(EmptyDict, n, kwargs[s][n]))
          ELSE /\ n \notin DOMAIN params_cache[s]
               /\ Refs(item) = {n} => args_list[s][k] = ItemText(item)

\* C17 (amended): for a name with no ParamSpec that a command item
\* references, a caller value is cached as given and rendered as str() of
\* it; with no caller value the name is not in the resolver's result, no
\* error is raised, and an item that references only that name is rendered
\* as it is written, unless the name is cwd or cwd_abs, which are rendered
\* from the run-local environment.
C17_UndeclaredNames ==
  \A s \in Sessions :
    Started(s) /\ HasEv(s, "build") =>
      /\ exc[s].type \notin {"KeyError"}
      /\ exc[s].type = "ValueError" => exc[s].arg = "No closing quotation"
      /\ \A k \in 1..Len(args_list[s]) :
           LET item == cmd_config[s].command[k] IN
           \A n \in Refs(item) \ Declared(cmd_config[s]) :
             IF n \in DOMAIN kwargs[s]
             THEN /\ params_cache[s][n] = kwargs[s][n]
                  /\ Refs(item) = {n} =>
                       args_list[s][k]
                         = safe_substitute(item, DictSet(EmptyDict, n, kwargs[s][n]))
             ELSE /\ n \notin DOMAIN params_cache[s]
                  /\ Refs(item) = {n} =>
                       args_list[s][k]
                         = IF n \in EnvNames
                           THEN safe_substitute(item,
                                  [cwd |-> Str(<<RunDir(s)>>),
                                   cwd_abs |-> Str(<<Join(abspath(job_path_atoms(
                                                 cmd_config[s], RunJob(s))))>>)])
                           ELSE ItemText(item)

\* A command has been built whose item $extra was left as written, the
\* caller having given no value for the undeclared name extra.
C17_Witness ==
  \E s \in Sessions :
    /\ pc[s] = "log_cmd" /\ cmd_config[s].name = "tmpl"
    /\ "extra" \notin DOMAIN kwargs[s] /\ "extra" \notin DOMAIN params_cache[s]
    /\ args_list[s][4] = <<"$", "extra">>

\* The command has an item with a `$` that starts no identifier, braced
\* identifier or escape.
Malformed(cfg) ==
  \E k \in 1..Len(cfg.command) : \E i \in 1..Len(cfg.command[k]) :
    cfg.command[k][i].k = "invalid"

\* C18 (as claimed): a run of a command with a malformed placeholder spawns
\* no subprocess and ends with an error.
C18_MalformedIsError ==
  \A s \in Sessions :
    Started(s) /\ Malformed(cmd_config[s]) =>
      /\ ~HasEv(s, "spawn")
      /\ Ended(s) => outcome[s].kind = "raise"

C20_CwdFromRunOnly ==
  \A s \in Sessions :
    Started(s) /\ pc[s] = "log_cmd" =>
      \A k \in 1..Len(args_list[s]) :
        LET item == cmd_config[s].command[k] IN
        Refs(item) # {} /\ Refs(item) \subseteq EnvNames =>
          args_list[s][k]
            = safe_substitute(item,
                [cwd |-> Str(<<RunDir(s)>>),
                 cwd_abs |-> Str(<<Join(abspath(job_path_atoms(cmd_config[s],
                                                               RunJob(s))))>>)])

====
